---- MODULE Spec2Model ----
(***************************************************************************)
(* Data_Generator of tutorials/segmentation.ipynb: the synthetic image     *)
(* generator (noisy disks plus ground-truth mask).                         *)
(*                                                                         *)
(* numpy arrays are objects on a heap: an attribute or a returned value is *)
(* an address, so in-place writes (a[mask] = v) are seen through every     *)
(* reference while a rebinding (self.img = np.clip(...)) allocates.        *)
(* Floats are modelled exactly: intensities and noise are integers, a      *)
(* radius is a rational <<n, d>> (n/d, d > 0).  The random source is a     *)
(* tape: entry k holds the values the k-th call of generate() draws.       *)
(* A point (x, y) of the coordinate grids is array element [y][x]          *)
(* (np.meshgrid's default 'xy' layout).                                    *)
(***************************************************************************)
EXTENDS Integers, Sequences, FiniteSets, TLC

VARIABLES objs, heap, hist, tape

vars == <<objs, heap, hist, tape>>

\* Bounds of the model.
MaxCalls == 2
MaxDisks == 2
MaxCallsWide == 1

\* Samples of the standard normal distribution (np.random.randn / normal).
ZSamples == {-3, 0, 3}

Insts == {1, 2}

(***************************************************************************)
(* numpy                                                                   *)
(***************************************************************************)
Index(shape) == (0 .. shape[1] - 1) \X (0 .. shape[2] - 1)

\* np.zeros((d0, d1))
zeros(d0, d1) ==
  [shape |-> <<d0, d1>>, data |-> [p \in Index(<<d0, d1>>) |-> 0]]

\* np.linspace(0, n-1, n): the n points 0, 1, ..., n-1
linspace(n) == [k \in 0 .. n - 1 |-> k]

\* np.meshgrid(x, y), indexing='xy': both results have shape (len(y), len(x)),
\* xx[i][j] = x[j] and yy[i][j] = y[i].
meshgrid(x, y) ==
  LET shape == <<Cardinality(DOMAIN y), Cardinality(DOMAIN x)>>
  IN [xx |-> [shape |-> shape, data |-> [p \in Index(shape) |-> x[p[2]]]],
      yy |-> [shape |-> shape, data |-> [p \in Index(shape) |-> y[p[1]]]]]

\* np.power(xx - xc, 2) + np.power(yy - yc, 2) - r**2 < 0, with r = r[1]/r[2]
DiskMask(xx, yy, d) ==
  [shape |-> xx.shape,
   data |-> [p \in Index(xx.shape) |->
               d.r[2] * d.r[2] * ((xx.data[p] - d.xc) * (xx.data[p] - d.xc)
                                  + (yy.data[p] - d.yc) * (yy.data[p] - d.yc))
               - d.r[1] * d.r[1] < 0]]

\* a[mask] with a boolean mask: numpy raises IndexError unless the shapes agree
CanIndex(a, mask) == a.shape = mask.shape

\* a[mask] = v
SetItem(a, mask, v) ==
  [a EXCEPT !.data = [p \in Index(a.shape) |-> IF mask.data[p] THEN v ELSE @[p]]]

\* a + b, equal shapes
add(a, b) == [a EXCEPT !.data = [p \in Index(a.shape) |-> @[p] + b.data[p]]]

\* s * a
scale(s, a) == [a EXCEPT !.data = [p \in Index(a.shape) |-> s * @[p]]]

\* np.clip(a, lo, None)
ClipNoUpper(a, lo, hi) ==
  [a EXCEPT !.data = [p \in Index(a.shape) |-> IF @[p] < lo THEN lo ELSE @[p]]]

\* np.clip(a, lo, hi)
clip(a, lo, hi) ==
  [a EXCEPT !.data = [p \in Index(a.shape) |->
                        IF @[p] < lo THEN lo ELSE IF @[p] > hi THEN hi ELSE @[p]]]

(***************************************************************************)
(* The random draws of one call                                            *)
(***************************************************************************)
\* np.random.poisson(theta): 0 when theta = 0, any count otherwise
PoissonDraws(theta) == IF theta = 0 THEN {0} ELSE 0 .. MaxDisks

\* np.random.uniform(0, n): the integer points of [0, n)
CenterDraws(n) == 0 .. n - 1

\* np.random.normal(loc=rmean, scale=rstd) = rmean + rstd * z
RadiusDraws(rmean, rstd) ==
  {<<rmean[1] * rstd[2] + z * rstd[1] * rmean[2], rmean[2] * rstd[2]>> : z \in ZSamples}

\* np.random.uniform(vmin, vmax) = vmin + (vmax - vmin) * u: the two ends
ValueDraws(vmin, vmax) == {vmin, vmax}

DiskDraws(self) ==
  [xc : CenterDraws(self.nx), yc : CenterDraws(self.ny),
   r : RadiusDraws(self.rmean, self.rstd), v : ValueDraws(self.vmin, self.vmax)]

\* np.random.randn(nx, ny); with sigma = 0 the product sigma * randn is the
\* zero grid whatever is drawn, and one draw stands for all.
RandnDraws(self) ==
  LET shape == <<self.nx, self.ny>>
  IN IF self.sigma = 0 THEN {[shape |-> shape, data |-> [p \in Index(shape) |-> 0]]}
     ELSE {[shape |-> shape, data |-> f] : f \in [Index(shape) -> ZSamples]}

Draws(self) ==
  {[ndisks |-> Len(ds), disks |-> ds, z |-> z] :
     ds \in UNION {[1 .. n -> DiskDraws(self)] : n \in PoissonDraws(self.theta)},
     z \in RandnDraws(self)}

(***************************************************************************)
(* Data_Generator                                                          *)
(***************************************************************************)
Cfg(nx, ny, theta, rmean, rstd, vmin, vmax, sigma) ==
  [nx |-> nx, ny |-> ny, theta |-> theta, rmean |-> rmean, rstd |-> rstd,
   vmin |-> vmin, vmax |-> vmax, sigma |-> sigma]

\* __init__ with both instances' grids being the same two arrays
InitShared(h, cfg) ==
  IF Len(h) >= 2
  THEN [heap |-> h, self |-> cfg @@ [img |-> 1, img_truth |-> 2]]
  ELSE [heap |-> h \o <<zeros(cfg.nx, cfg.ny), zeros(cfg.nx, cfg.ny)>>,
        self |-> cfg @@ [img |-> Len(h) + 1, img_truth |-> Len(h) + 2]]

\* __init__: stores the parameters as given and allocates two zero grids
init(h, cfg) ==
  [heap |-> h \o <<zeros(cfg.nx, cfg.ny), zeros(cfg.nx, cfg.ny)>>,
   self |-> cfg @@ [img |-> Len(h) + 1, img_truth |-> Len(h) + 2]]

\* a[mask] += 1
AddOne(a, mask) ==
  [a EXCEPT !.data = [p \in Index(a.shape) |-> IF mask.data[p] THEN @[p] + 1 ELSE @[p]]]

\* The loop body with self.img_truth[mask] += 1
DrawDiskAccum(st, self, xx, yy, d) ==
  LET mask == DiskMask(xx, yy, d)
  IN IF ~CanIndex(st.heap[self.img], mask) THEN [st EXCEPT !.err = TRUE]
     ELSE [st EXCEPT !.heap =
             [@ EXCEPT ![self.img] = SetItem(@, mask, d.v),
                       ![self.img_truth] = AddOne(@, mask)]]

\* The body of the loop: the mask of one disk, then the two in-place writes.
\* st.err records the IndexError of a mask that does not fit the grid.
DrawDisk(st, self, xx, yy, d) ==
  LET mask == DiskMask(xx, yy, d)
  IN IF ~CanIndex(st.heap[self.img], mask) THEN [st EXCEPT !.err = TRUE]
     ELSE [st EXCEPT !.heap =
             [@ EXCEPT ![self.img] = SetItem(@, mask, d.v),
                       ![self.img_truth] = SetItem(@, mask, 1)]]

\* The loop run from the last disk to the first
RECURSIVE DrawDisksReversed(_, _, _, _, _)
DrawDisksReversed(st, self, xx, yy, disks) ==
  IF disks = <<>> \/ st.err THEN st
  ELSE DrawDisksReversed(DrawDisk(st, self, xx, yy, disks[Len(disks)]),
                         self, xx, yy, SubSeq(disks, 1, Len(disks) - 1))

\* for n in range(self.ndisks): the disks in the order they are drawn
RECURSIVE DrawDisks(_, _, _, _, _)
DrawDisks(st, self, xx, yy, disks) ==
  IF disks = <<>> \/ st.err THEN st
  ELSE DrawDisks(DrawDisk(st, self, xx, yy, Head(disks)), self, xx, yy, Tail(disks))

\* generate(): the outcome of one call on instance self with heap h and draws t
generate(h, self, t) ==
  LET m == meshgrid(linspace(self.nx), linspace(self.ny))
      self1 == [ndisks |-> t.ndisks] @@ self
      loop == DrawDisks([err |-> FALSE, heap |-> h], self1, m.xx, m.yy, t.disks)
  IN IF loop.err
     THEN [status |-> "IndexError", heap |-> loop.heap, self |-> self1]
     ELSE LET noise == scale(self.sigma, t.z)
              h2 == Append(loop.heap, clip(add(loop.heap[self.img], noise), 0, 255))
              self2 == [self1 EXCEPT !.img = Len(h2)]
          IN [status |-> "returned", heap |-> h2, self |-> self2,
              pre |-> loop.heap[self.img]]

\* What the caller of one call gets, with the grids' contents at return time
Outcome(r) ==
  IF r.status = "returned"
  THEN [status |-> "returned", img |-> r.self.img, img_truth |-> r.self.img_truth,
        imgAt |-> r.heap[r.self.img], truthAt |-> r.heap[r.self.img_truth],
        pre |-> r.pre]
  ELSE [status |-> r.status]

(***************************************************************************)
(* Actions                                                                 *)
(***************************************************************************)
Construct(i, cfg) ==
  /\ i \notin DOMAIN objs
  /\ LET r == init(heap, cfg)
     IN /\ heap' = r.heap
        /\ objs' = (i :> r.self) @@ objs
  /\ UNCHANGED <<hist, tape>>

\* One call of generate() on instance i; its draws are entry k of the tape,
\* drawn now when no instance has made a k-th call yet.
Generate(i, limit) ==
  /\ i \in DOMAIN objs
  /\ Len(hist[i]) < limit
  /\ LET k == Len(hist[i]) + 1
     IN \E t \in (IF k <= Len(tape) THEN {tape[k]} ELSE Draws(objs[i])) :
          \E r \in {generate(heap, objs[i], t)} :
             /\ heap' = r.heap
             /\ objs' = [objs EXCEPT ![i] = r.self]
             /\ hist' = [hist EXCEPT ![i] = Append(@, Outcome(r))]
             /\ tape' = IF k <= Len(tape) THEN tape ELSE Append(tape, t)

Init ==
  /\ objs = <<>>
  /\ heap = <<>>
  /\ hist = [i \in Insts |-> <<>>]
  /\ tape = <<>>

(***************************************************************************)
(* One instance, any of the configurations below                           *)
(***************************************************************************)
\* 2 x 2, every disk of radius 1 and intensity 200, no noise
Square2 == Cfg(2, 2, 5, <<1, 1>>, <<0, 1>>, 200, 200, 0)
\* 1 x 1, the notebook's intensities 15..200 and noise sigma = 30
Pixel1 == Cfg(1, 1, 5, <<1, 1>>, <<0, 1>>, 15, 200, 30)
\* 1 x 1, radius 0 +- 1 * z: zero and negative radii
Radius0 == Cfg(1, 1, 5, <<0, 1>>, <<1, 1>>, 200, 200, 0)
\* 1 x 2: a non-square grid
Wide12 == Cfg(1, 2, 5, <<1, 1>>, <<0, 1>>, 200, 200, 0)
\* vmin > vmax
VSwap == Cfg(1, 1, 5, <<1, 1>>, <<0, 1>>, 200, 15, 0)
\* sigma < 0
NegSigma == Cfg(1, 1, 5, <<1, 1>>, <<0, 1>>, 200, 200, -30)
\* theta = 0
Theta0 == Cfg(1, 1, 0, <<1, 1>>, <<0, 1>>, 200, 200, 0)

Configs == {Square2, Pixel1, Radius0, Wide12, VSwap, NegSigma, Theta0}

New == \E cfg \in Configs : Construct(1, cfg)

Call == Generate(1, MaxCalls)

Next == New \/ Call

Spec == Init /\ [][Next]_vars

(***************************************************************************)
(* One instance on a 2 x 2 grid with two intensities                       *)
(***************************************************************************)
\* radius 5/4: a disk covers its centre pixel and the two next to it
Overlap2 == Cfg(2, 2, 5, <<5, 4>>, <<0, 1>>, 15, 200, 0)
\* radius 2: a disk covers the whole grid
Cover2 == Cfg(2, 2, 5, <<2, 1>>, <<0, 1>>, 200, 200, 0)

WideConfigs == {Overlap2, Square2, Cover2}

NewWide == \E cfg \in WideConfigs : Construct(1, cfg)

CallWide == Generate(1, MaxCallsWide)

NextWide == NewWide \/ CallWide

SpecWide == Init /\ [][NextWide]_vars

(***************************************************************************)
(* Two instances of one configuration on the same random tape              *)
(***************************************************************************)
\* 1 x 1, two intensities, no noise
Pixel0 == Cfg(1, 1, 5, <<1, 1>>, <<0, 1>>, 15, 200, 0)
\* 1 x 1, one intensity, noise
Noise1 == Cfg(1, 1, 5, <<1, 1>>, <<0, 1>>, 200, 200, 30)

PairConfigs == {Pixel0, Noise1}

Config(self) == [f \in DOMAIN Pixel0 |-> self[f]]

NewPair ==
  \E i \in Insts, cfg \in PairConfigs :
    /\ \A j \in DOMAIN objs : Config(objs[j]) = cfg
    /\ Construct(i, cfg)

CallPair == \E i \in Insts : Generate(i, MaxCalls)

NextPair == NewPair \/ CallPair

SpecPair == Init /\ [][NextPair]_vars

(***************************************************************************)
(* Properties                                                              *)
(***************************************************************************)
\* The calls of instance i that returned a pair
Returned(i) == {k \in 1 .. Len(hist[i]) : hist[i][k].status = "returned"}

\* (x - xc)^2 + (y - yc)^2 < r^2, strictly
InDisc(x, y, d) ==
  d.r[2] * d.r[2] * ((x - d.xc) * (x - d.xc) + (y - d.yc) * (y - d.yc)) < d.r[1] * d.r[1]

\* The disks of draws t whose disc holds pixel p; p = [row][column] is the
\* point x = column, y = row of the coordinate grids.
Covering(p, t) == {n \in 1 .. t.ndisks : InDisc(p[2], p[1], t.disks[n])}

LastCovering(p, t) == CHOOSE n \in Covering(p, t) : \A m \in Covering(p, t) : m <= n

ClipValue(v) == IF v < 0 THEN 0 ELSE IF v > 255 THEN 255 ELSE v

\* The constraints the constructor is said to enforce
ConstructorConstraints(self) ==
  /\ self.nx >= 1 /\ self.ny >= 1
  /\ self.theta > 0
  /\ self.vmin <= self.vmax
  /\ self.sigma >= 0

\* A valid configuration
ValidConfiguration(self) ==
  /\ ConstructorConstraints(self)
  /\ self.rstd[1] >= 0
  /\ 0 <= self.vmin /\ self.vmax <= 255

\* C1: the mask a call returns is 1 exactly on the pixels that lie strictly
\* inside at least one disk drawn during that same call (all zero for a call
\* that draws no disk), whatever the calls before it drew.
C1_MaskIsThisCallsDisks ==
  \A i \in DOMAIN objs : \A k \in Returned(i) :
    \A p \in Index(hist[i][k].truthAt.shape) :
      (hist[i][k].truthAt.data[p] = 1) <=> (Covering(p, tape[k]) # {})

\* C2: the image a call returns is, at every pixel, clip(base + noise, 0, 255)
\* with base the intensity of the last disk of that call covering the pixel,
\* or 0 when none does: nothing of earlier calls remains.
C2_ImageIsThisCallsDisksAndNoise ==
  \A i \in DOMAIN objs : \A k \in Returned(i) :
    \A p \in Index(hist[i][k].imgAt.shape) :
      LET base == IF Covering(p, tape[k]) = {} THEN 0
                  ELSE tape[k].disks[LastCovering(p, tape[k])].v
      IN hist[i][k].imgAt.data[p] = ClipValue(base + objs[i].sigma * tape[k].z.data[p])

\* C3: for a valid configuration, square or not, every call returns an image
\* and a mask of shape (nx, ny).
C3_EveryCallReturnsShape ==
  \A i \in DOMAIN objs : ValidConfiguration(objs[i]) =>
    \A k \in 1 .. Len(hist[i]) :
      /\ hist[i][k].status = "returned"
      /\ hist[i][k].imgAt.shape = <<objs[i].nx, objs[i].ny>>
      /\ hist[i][k].truthAt.shape = <<objs[i].nx, objs[i].ny>>

\* C4: for a valid configuration and any draws, no call of generate() raises:
\* the boolean mask of every disk is a valid index into the grids.
C4_GenerateNeverRaises ==
  \A i \in DOMAIN objs : ValidConfiguration(objs[i]) =>
    \A k \in 1 .. Len(hist[i]) : hist[i][k].status # "IndexError"

\* C5: no instance exists whose configuration violates nx >= 1, ny >= 1,
\* theta > 0, vmin <= vmax or sigma >= 0: its construction fails.
C5_InvalidConfigurationRejected ==
  \A i \in DOMAIN objs : ConstructorConstraints(objs[i])

\* C6: every pixel of the image a call returns lies in [0, 255].
C6_ImageInRange ==
  \A i \in DOMAIN objs : \A k \in Returned(i) :
    \A p \in Index(hist[i][k].imgAt.shape) :
      0 <= hist[i][k].imgAt.data[p] /\ hist[i][k].imgAt.data[p] <= 255

\* A call whose noise drove a pixel above 255 and a call whose noise drove it
\* below 0 have both returned.
C6_Witness ==
  \E i \in DOMAIN objs : \E k1 \in Returned(i), k2 \in Returned(i) :
    \E p \in Index(hist[i][k1].imgAt.shape) :
      /\ hist[i][k1].pre.data[p] + objs[i].sigma * tape[k1].z.data[p] > 255
      /\ hist[i][k1].imgAt.data[p] = 255
      /\ hist[i][k2].pre.data[p] + objs[i].sigma * tape[k2].z.data[p] < 0
      /\ hist[i][k2].imgAt.data[p] = 0

\* C7: every pixel of an instance's mask grid is 0 or 1 in every state.
C7_MaskBinary ==
  \A i \in DOMAIN objs :
    \A p \in Index(heap[objs[i].img_truth].shape) :
      heap[objs[i].img_truth].data[p] \in {0, 1}

\* A mask with a pixel two disks of one call covered, and a pixel left at 0.
C7_Witness ==
  \E i \in DOMAIN objs : \E k \in Returned(i) :
    \E p \in Index(heap[objs[i].img_truth].shape),
       q \in Index(heap[objs[i].img_truth].shape) :
      /\ Cardinality(Covering(p, tape[k])) >= 2
      /\ heap[objs[i].img_truth].data[p] = 1
      /\ heap[objs[i].img_truth].data[q] = 0

\* The two disks of a call that drew two overlapping disks of distinct
\* intensities
TwoOverlapping(t) ==
  /\ t.ndisks = 2
  /\ t.disks[1].v # t.disks[2].v
  /\ \E p \in Index(t.z.shape) : Covering(p, t) = {1, 2}

\* C8: when a call rasterizes two overlapping disks of distinct intensities
\* v1 then v2, then before the noise is added (and in the returned image when
\* sigma = 0 and both intensities are in [0, 255]) every pixel in both discs
\* holds v2, every pixel in the first disc only holds v1, and the mask is 1
\* on every pixel of either disc.
C8_OverlapPrecedence ==
  \A i \in DOMAIN objs : \A k \in Returned(i) :
    TwoOverlapping(tape[k]) =>
      \A p \in Index(hist[i][k].pre.shape) :
        LET c == Covering(p, tape[k])
            seen == objs[i].sigma = 0 /\ \A n \in {1, 2} : tape[k].disks[n].v \in 0 .. 255
        IN /\ 2 \in c => /\ hist[i][k].pre.data[p] = tape[k].disks[2].v
                         /\ seen => hist[i][k].imgAt.data[p] = tape[k].disks[2].v
           /\ c = {1} => /\ hist[i][k].pre.data[p] = tape[k].disks[1].v
                         /\ seen => hist[i][k].imgAt.data[p] = tape[k].disks[1].v
           /\ c # {} => hist[i][k].truthAt.data[p] = 1

\* A call has returned that drew two overlapping disks of distinct
\* intensities, with a pixel in both discs, one in the first only and one in
\* the second only.
C8_Witness ==
  \E i \in DOMAIN objs : \E k \in Returned(i) :
    /\ TwoOverlapping(tape[k])
    /\ \E p \in Index(hist[i][k].pre.shape) : Covering(p, tape[k]) = {1}
    /\ \E p \in Index(hist[i][k].pre.shape) : Covering(p, tape[k]) = {2}

\* What a call hands back, without the addresses
Result(e) == IF e.status = "returned" THEN <<e.status, e.imgAt, e.truthAt>> ELSE <<e.status>>

\* C9: two instances of one configuration fed the same draws return the same
\* (image, mask) at every call, however their calls interleave.
C9_Deterministic ==
  \A k \in 1 .. Len(hist[1]) :
    k <= Len(hist[2]) => Result(hist[1][k]) = Result(hist[2][k])

\* Both instances have made two calls, and the two calls returned different
\* masks.
C9_Witness ==
  /\ Len(hist[1]) >= 2 /\ Len(hist[2]) >= 2
  /\ hist[1][1].status = "returned" /\ hist[1][2].status = "returned"
  /\ hist[1][1].truthAt # hist[1][2].truthAt
  /\ hist[2][2].imgAt # hist[2][1].imgAt

\* C10: the image grid and the mask grid a call returned keep the contents
\* they had at return time, whatever calls follow.
C10_ReturnedPairStable ==
  \A i \in DOMAIN objs : \A k \in Returned(i) :
    /\ heap[hist[i][k].img] = hist[i][k].imgAt
    /\ heap[hist[i][k].img_truth] = hist[i][k].truthAt

====
